---- MODULE Spec2Model ----
(***************************************************************************)
(* Model of the FF7 field walkmesh decoder, query engine and viewer:       *)
(*   parseWalkmesh, parseGateways, calculateWalkmeshBounds (walkmesh.ts)   *)
(*   pointInTriangle, calculateZAtPoint, findTriangleAtPosition,           *)
(*   DraggableModel (WalkmeshMesh.tsx)                                     *)
(*   the field-walkmesh-data listener of App (index.tsx)                   *)
(*   the Models switch of WalkmeshViewer (WalkmeshViewer.tsx).             *)
(* Byte buffers are sequences of 0..255 (offset o is element o + 1).       *)
(* JavaScript numbers are modelled as integers; the 32-bit results of the  *)
(* bitwise operators | and << keep their width and sign.                   *)
(***************************************************************************)
EXTENDS Integers, Sequences, FiniteSets, TLC

VARIABLES
    buffer,      \* argument of parseWalkmesh
    outcome,     \* how the last decode call ended: "pending" or "returned"
    walkmesh,    \* the Walkmesh value (parseWalkmesh's result)
    gwBuffer,    \* argument of parseGateways
    gwOutcome,   \* "pending" or "returned"
    gateways,    \* the Gateway[] value (parseGateways' result)
    gwReads,     \* byte offsets parseGateways indexed in its buffer
    query,       \* the (x, y) argument of findTriangleAtPosition
    found,       \* its TriangleInfo result, or NoResult
    bounds,      \* calculateWalkmeshBounds' result, or NoResult
    centroidFound,   \* result of the query at the centroid of triangle 0
    calls,           \* per caller: its last query point and the result
    fieldModels,     \* App state: the FieldModel[] last received
    fieldName,       \* App state
    appFieldId,      \* App state fieldId (the name fieldId is a local of parseGateways)
    isLoading,       \* App state
    showModels,      \* WalkmeshViewer state: the Models switch
    dragging,        \* indices of the DraggableModels whose isDraggingRef is set
    position,        \* per mounted DraggableModel: its group's position
    controlsEnabled, \* controlsRef.current.enabled
    emitted,         \* field-model-position-update messages of the last event
    delivered        \* payload of the field-walkmesh-data event just handled

\* The state of App, WalkmeshViewer and the DraggableModels beyond the
\* walkmesh and the gateways.
viewerVars == <<fieldModels, fieldName, appFieldId, isLoading, showModels,
                dragging, position, controlsEnabled, emitted, delivered>>

vars == <<buffer, outcome, walkmesh, gwBuffer, gwOutcome, gateways, gwReads,
          query, found, bounds, centroidFound, calls, viewerVars>>

-----------------------------------------------------------------------------
(* JavaScript 32-bit integer operators.                                    *)

\* An Int32 as its two unsigned 16-bit halves, and back (two's complement).
HiHalf(v) == (v \div 65536) % 65536
LoHalf(v) == v % 65536
FromHalves(hi, lo) == IF hi >= 32768 THEN (hi - 65536) * 65536 + lo ELSE hi * 65536 + lo

RECURSIVE Or16(_, _)
Or16(a, b) ==
    IF a = 0 THEN b
    ELSE IF b = 0 THEN a
    ELSE (IF a % 2 = 1 \/ b % 2 = 1 THEN 1 ELSE 0) + 2 * Or16(a \div 2, b \div 2)

\* a | b on Int32 operands.
BitOr(a, b) == FromHalves(Or16(HiHalf(a), HiHalf(b)), Or16(LoHalf(a), LoHalf(b)))

\* v << k on an Int32 operand, 0 <= k <= 15: the bits shifted past bit 31 are lost.
ShlLow(v, k) ==
    LET lo2 == LoHalf(v) * (2 ^ k)
        hi2 == HiHalf(v) * (2 ^ k) + (lo2 \div 65536)
    IN  FromHalves(hi2 % 65536, lo2 % 65536)

\* v << k on an Int32 operand, 0 <= k <= 31.
Shl(v, k) == IF k < 16 THEN ShlLow(v, k) ELSE ShlLow(FromHalves(LoHalf(v), 0), k - 16)

\* Mutant: an element past the end reads as 0xFF.
ElemOnes(buf, offset) == IF offset >= 0 /\ offset < Len(buf) THEN buf[offset + 1] ELSE 255
\* buffer[offset] as an operand of | or <<: an element past the end of the
\* array is undefined, which ToInt32 turns into 0.
Elem(buf, offset) == IF offset >= 0 /\ offset < Len(buf) THEN buf[offset + 1] ELSE 0

-----------------------------------------------------------------------------
(* walkmesh.ts: parseWalkmesh                                              *)

MaxTriangleCount == 10000
SectorPoolOffset == 4
SectorSize == 24
AccessSize == 6
BLOCKED == 65535

readInt16(buf, offset) ==
    LET val == BitOr(Elem(buf, offset), Shl(Elem(buf, offset + 1), 8))
    IN  IF val > 32767 THEN val - 65536 ELSE val

\* Mutant: the access value read as a signed field.
readUInt16Signed(buf, offset) == readInt16(buf, offset)
readUInt16(buf, offset) == BitOr(Elem(buf, offset), Shl(Elem(buf, offset + 1), 8))

readUInt32(buf, offset) ==
    BitOr(BitOr(BitOr(Elem(buf, offset), Shl(Elem(buf, offset + 1), 8)),
                Shl(Elem(buf, offset + 2), 16)),
          Shl(Elem(buf, offset + 3), 24))

Vertex(buf, o) == [x |-> readInt16(buf, o), y |-> readInt16(buf, o + 2), z |-> readInt16(buf, o + 4)]

EmptyWalkmesh == [triangleCount |-> 0, triangles |-> <<>>]

\* Mutant: the adjacency record located with the vertex record's stride.
TriangleAtSectorStride(buf, accessPoolOffset, i) ==
    LET sectorOffset == SectorPoolOffset + i * SectorSize
        accessOffset == accessPoolOffset + i * SectorSize
    IN  [vertices |-> <<Vertex(buf, sectorOffset), Vertex(buf, sectorOffset + 8),
                        Vertex(buf, sectorOffset + 16)>>,
         access |-> <<readUInt16(buf, accessOffset), readUInt16(buf, accessOffset + 2),
                      readUInt16(buf, accessOffset + 4)>>]
\* One iteration of the loop over i (0-based).
TriangleAt(buf, accessPoolOffset, i) ==
    LET sectorOffset == SectorPoolOffset + i * SectorSize
        accessOffset == accessPoolOffset + i * AccessSize
    IN  [vertices |-> <<Vertex(buf, sectorOffset), Vertex(buf, sectorOffset + 8),
                        Vertex(buf, sectorOffset + 16)>>,
         access |-> <<readUInt16(buf, accessOffset), readUInt16(buf, accessOffset + 2),
                      readUInt16(buf, accessOffset + 4)>>]

parseWalkmesh(buf) ==
    IF Len(buf) < 4 THEN EmptyWalkmesh
    ELSE LET triangleCount == readUInt32(buf, 0) IN
         IF triangleCount = 0 \/ triangleCount > MaxTriangleCount THEN EmptyWalkmesh
         ELSE LET accessPoolOffset == SectorPoolOffset + triangleCount * SectorSize IN
              [triangleCount |-> triangleCount,
               \* for (i = 0; i < triangleCount; i++): no iteration when the
               \* count is negative
               triangles |-> [k \in 1..triangleCount |-> TriangleAt(buf, accessPoolOffset, k - 1)]]

-----------------------------------------------------------------------------
(* Inputs of parseWalkmesh: a 4-byte header followed by a body.            *)

NoResult == [none |-> TRUE]

\* Largest declared count whose complete buffer (4 + N * 30 bytes) is drawn.
MaxTriangles == 2
\* Body patterns: 0 is all 0x00, 1 is all 0xFF, s + 1 is the ramp of seed s.
MaxFill == 3

RecordSize == SectorSize + AccessSize
MaxLen == SectorPoolOffset + MaxTriangles * RecordSize + 1

\* The count 0 <= n < 65536 as 4 little-endian bytes.
HeaderOf(n) == <<n % 256, n \div 256, 0, 0>>

Headers ==
    {HeaderOf(n) : n \in 0..MaxTriangles}
        \cup {HeaderOf(10001),                  \* just above the ceiling
              <<0, 0, 1, 0>>, <<0, 0, 0, 1>>,   \* 65536 and 16777216
              <<0, 0, 0, 128>>, <<1, 0, 0, 128>>, <<255, 255, 255, 255>>}  \* top bit set

Fill(kind, k) ==
    IF kind = 0 THEN 0
    ELSE IF kind = 1 THEN 255
    ELSE ((2 * kind - 1) * k + 89 * kind) % 256

MakeBuffer(h, kind, len) == [k \in 1..len |-> IF k <= 4 THEN h[k] ELSE Fill(kind, k - 1)]

\* The initial useState and useRef values of App, WalkmeshViewer and the
\* map controls; no DraggableModel is mounted and nothing was emitted.
ViewerIdle ==
    /\ fieldModels = <<>> /\ fieldName = "" /\ appFieldId = 0 /\ isLoading = TRUE
    /\ showModels = TRUE
    /\ dragging = {} /\ position = <<>> /\ controlsEnabled = TRUE
    /\ emitted = {} /\ delivered = NoResult

\* The two call sites of sendPositionUpdate, which calls
\* findTriangleAtPosition.
Callers == {"handleMouseMove", "handleMouseUp"}

\* No query was made yet.
QueryIdle ==
    /\ query = NoResult /\ found = NoResult /\ bounds = NoResult
    /\ centroidFound = NoResult /\ calls = [c \in Callers |-> NoResult]

Idle ==
    /\ gwBuffer = <<>> /\ gwOutcome = "pending" /\ gateways = <<>> /\ gwReads = {}
    /\ QueryIdle
    /\ ViewerIdle

InitWalkmesh ==
    /\ \E h \in Headers, kind \in 0..MaxFill, len \in 0..MaxLen : buffer = MakeBuffer(h, kind, len)
    /\ outcome = "pending"
    /\ walkmesh = NoResult
    /\ Idle

\* The call parseWalkmesh(buffer): it has no failure path, it always returns.
ParseWalkmesh ==
    /\ outcome = "pending"
    /\ walkmesh' = parseWalkmesh(buffer)
    /\ outcome' = "returned"
    /\ UNCHANGED <<buffer, gwBuffer, gwOutcome, gateways, gwReads, query, found, bounds,
                   centroidFound, calls, viewerVars>>

NextWalkmesh == ParseWalkmesh

SpecWalkmesh == InitWalkmesh /\ [][NextWalkmesh]_vars

-----------------------------------------------------------------------------
(* Properties of parseWalkmesh, checked under SpecWalkmesh.                *)

\* The little-endian fields of a buffer, by arithmetic on its bytes.
U16At(buf, o) == buf[o + 1] + 256 * buf[o + 2]
S16At(buf, o) == IF U16At(buf, o) >= 32768 THEN U16At(buf, o) - 65536 ELSE U16At(buf, o)
\* The same with every byte past the end of the buffer taken as 0.
Byte0(buf, o) == IF o < Len(buf) THEN buf[o + 1] ELSE 0
U16At0(buf, o) == Byte0(buf, o) + 256 * Byte0(buf, o + 1)
S16At0(buf, o) == IF U16At0(buf, o) >= 32768 THEN U16At0(buf, o) - 65536 ELSE U16At0(buf, o)

\* The header of a buffer of 4 bytes or more, read as an unsigned 32-bit count.
HeaderIsZero(buf) == buf[1] = 0 /\ buf[2] = 0 /\ buf[3] = 0 /\ buf[4] = 0
HeaderAboveCeiling(buf) == buf[4] > 0 \/ buf[3] > 0 \/ U16At(buf, 0) > MaxTriangleCount
HeaderInRange(buf) == Len(buf) >= 4 /\ ~HeaderIsZero(buf) /\ ~HeaderAboveCeiling(buf)
HeaderCount(buf) == U16At(buf, 0)
Truncated(buf) == HeaderInRange(buf) /\ Len(buf) < SectorPoolOffset + HeaderCount(buf) * RecordSize
Complete(buf) == HeaderInRange(buf) /\ Len(buf) >= SectorPoolOffset + HeaderCount(buf) * RecordSize

\* C1: a buffer shorter than 4 bytes, or whose unsigned 32-bit header is 0 or
\* above 10000 (top bit set included), decodes to the empty walkmesh.
C1_EmptyOnBadHeader ==
    (outcome = "returned" /\ (Len(buffer) < 4 \/ HeaderIsZero(buffer) \/ HeaderAboveCeiling(buffer)))
        => walkmesh = EmptyWalkmesh

\* C2: a complete buffer declaring N triangles decodes to exactly N triangles
\* in on-disk order: vertex j of triangle i holds the signed 16-bit values at
\* 4 + i*24 + j*8 + 0/2/4, access[k] the unsigned 16-bit value at
\* 4 + N*24 + i*6 + 2k.
C2_RoundTrip ==
    (outcome = "returned" /\ Complete(buffer)) =>
        LET N == HeaderCount(buffer) IN
        /\ walkmesh.triangleCount = N
        /\ Len(walkmesh.triangles) = N
        /\ \A i \in 0..(N - 1) :
              /\ \A j \in 0..2 :
                    LET v == walkmesh.triangles[i + 1].vertices[j + 1]
                        o == 4 + i * 24 + j * 8
                    IN  /\ v.x = S16At(buffer, o)
                        /\ v.y = S16At(buffer, o + 2)
                        /\ v.z = S16At(buffer, o + 4)
                        /\ v.x \in -32768..32767 /\ v.y \in -32768..32767 /\ v.z \in -32768..32767
              /\ \A k \in 0..2 :
                    LET a == walkmesh.triangles[i + 1].access[k + 1] IN
                    /\ a = U16At(buffer, 4 + N * 24 + i * 6 + 2 * k)
                    /\ a \in 0..65535

\* A complete buffer of two or more triangles whose last triangle decoded a
\* negative coordinate and the BLOCKED sentinel.
C2_Witness ==
    /\ outcome = "returned" /\ Complete(buffer) /\ HeaderCount(buffer) >= 2
    /\ walkmesh.triangles[2].vertices[3].z < 0
    /\ walkmesh.triangles[2].access[3] = BLOCKED

\* C3: every returned walkmesh has triangles.length = triangleCount >= 0.
C3_LengthIsCount ==
    outcome = "returned" =>
        (Len(walkmesh.triangles) = walkmesh.triangleCount /\ walkmesh.triangleCount >= 0)

\* C4 as stated: every access value is BLOCKED or an index of the walkmesh.
C4_AccessBlockedOrIndex ==
    outcome = "returned" =>
        \A i \in 1..Len(walkmesh.triangles) : \A k \in 1..3 :
            LET a == walkmesh.triangles[i].access[k] IN
            a = BLOCKED \/ a \in 0..(walkmesh.triangleCount - 1)

\* C4 amended: every access value is an unsigned 16-bit integer (BLOCKED, an
\* index of the walkmesh, or an index outside it): the decoder does not
\* validate adjacency.
C4_AccessIsUInt16 ==
    outcome = "returned" =>
        \A i \in 1..Len(walkmesh.triangles) : \A k \in 1..3 :
            walkmesh.triangles[i].access[k] \in 0..65535

\* A returned walkmesh of two triangles with an access value that is neither
\* BLOCKED nor the index of one of them.
C4_Witness ==
    /\ outcome = "returned"
    /\ walkmesh.triangleCount = 2
    /\ \E k \in 1..3 :
          /\ walkmesh.triangles[2].access[k] \notin 0..(walkmesh.triangleCount - 1)
          /\ walkmesh.triangles[2].access[k] # BLOCKED

\* C5 as stated: a truncated buffer makes the decoder fail with TruncatedInput.
C5_TruncatedFails ==
    (outcome # "pending" /\ Truncated(buffer)) => outcome = "TruncatedInput"

\* C5 amended: a truncated buffer does not fail: the decoder returns the N
\* declared triangles, decoding every byte past the end of the buffer as 0.
C5_TruncatedReadsZero ==
    (outcome # "pending" /\ Truncated(buffer)) =>
        LET N == HeaderCount(buffer) IN
        /\ outcome = "returned"
        /\ walkmesh.triangleCount = N
        /\ Len(walkmesh.triangles) = N
        /\ \A i \in 0..(N - 1) :
              /\ \A j \in 0..2 :
                    LET v == walkmesh.triangles[i + 1].vertices[j + 1]
                        o == 4 + i * 24 + j * 8
                    IN  v = [x |-> S16At0(buffer, o), y |-> S16At0(buffer, o + 2),
                             z |-> S16At0(buffer, o + 4)]
              /\ \A k \in 0..2 :
                    walkmesh.triangles[i + 1].access[k + 1]
                        = U16At0(buffer, 4 + N * 24 + i * 6 + 2 * k)

\* A buffer cut in the middle of a vertex field: the low byte is decoded,
\* the missing high byte reads as 0, the fields behind it are all 0.
C5_Witness ==
    /\ outcome = "returned" /\ Truncated(buffer)
    /\ Len(buffer) = SectorPoolOffset + 3
    /\ walkmesh.triangles[1].vertices[1].y = buffer[Len(buffer)]
    /\ buffer[Len(buffer)] > 0
    /\ walkmesh.triangles[1].access = <<0, 0, 0>>

-----------------------------------------------------------------------------
(* walkmesh.ts: parseGateways                                              *)

GatewayMinLength == 344
GatewayOffset == 56
GatewaySlots == 12
GatewaySlotSize == 24

\* Mutant: the length check four bytes short of the slot table's end.
GatewayTooShortBy4(buf) == Len(buf) < GatewayMinLength - 4
GatewayTooShort(buf) == Len(buf) < GatewayMinLength

\* Mutant: the degeneracy check looks at z as well.
IsPlaceholderWithZ(vertex1, vertex2) ==
    /\ vertex1.x = 0 /\ vertex1.y = 0 /\ vertex1.z = 0
    /\ vertex2.x = 0 /\ vertex2.y = 0 /\ vertex2.z = 0
\* vertex1.x === 0 && vertex1.y === 0 && vertex2.x === 0 && vertex2.y === 0
IsPlaceholder(vertex1, vertex2) ==
    vertex1.x = 0 /\ vertex1.y = 0 /\ vertex2.x = 0 /\ vertex2.y = 0

RECURSIVE GatewayLoop(_, _, _)
\* The loop for (i = 0; i < 12; i++) from iteration i on, over the gateways
\* pushed so far.
GatewayLoop(buf, i, pushed) ==
    IF i >= GatewaySlots THEN pushed
    ELSE LET offset == GatewayOffset + i * GatewaySlotSize
             fieldId == readUInt16(buf, offset + 18)
             vertex1 == Vertex(buf, offset)
             vertex2 == Vertex(buf, offset + 6)
         IN  IF fieldId = 0 THEN GatewayLoop(buf, i + 1, pushed)
             ELSE IF IsPlaceholder(vertex1, vertex2) THEN GatewayLoop(buf, i + 1, pushed)
             ELSE GatewayLoop(buf, i + 1,
                              Append(pushed, [vertex1 |-> vertex1, vertex2 |-> vertex2,
                                              fieldId |-> fieldId]))

parseGateways(buf) == IF GatewayTooShort(buf) THEN <<>> ELSE GatewayLoop(buf, 0, <<>>)

\* The offsets iteration i indexes in the buffer: the field identifier's two
\* bytes, then (past the first continue) the two vertices' twelve bytes.
SlotReads(buf, i) ==
    LET offset == GatewayOffset + i * GatewaySlotSize IN
    {offset + 18, offset + 19}
        \cup (IF readUInt16(buf, offset + 18) = 0 THEN {} ELSE offset..(offset + 11))

gatewayReads(buf) ==
    IF GatewayTooShort(buf) THEN {}
    ELSE UNION {SlotReads(buf, i) : i \in 0..(GatewaySlots - 1)}

-----------------------------------------------------------------------------
(* Inputs of parseGateways: 56 bytes, 12 slots of 24 bytes, a tail.        *)

\* Slot patterns 0..MaxKind; slot i of input (stride, seed) has the pattern
\* (stride * i + seed) % (MaxKind + 1).
MaxKind == 7
MaxStride == 3
\* Buffer lengths run up to 344 + MaxExtra.
MaxExtra == 1

\* Byte b (0..23) of a slot of the given pattern; k is its offset in the buffer.
SlotByte(kind, b, k) ==
    CASE kind = 0 -> 0                                   \* unused slot
      [] kind = 1 -> IF b \in 0..3 \cup 6..9 THEN 0      \* x, y zero; z, field id not
                     ELSE IF b = 19 THEN 0 ELSE IF b = 18 THEN 5 ELSE 170
      [] kind = 2 -> IF b \in 18..19 THEN 0 ELSE 3 + b   \* field id 0, coordinates not
      [] kind = 3 -> IF b \in {1, 19} THEN 1 ELSE 0      \* vertex1.x = 256, field id 256
      [] kind = 4 -> IF b \in 18..19 THEN 255            \* vertex2.y = -32768, field id 65535
                     ELSE IF b = 9 THEN 128 ELSE 0
      [] kind = 5 -> IF b \in 2..3 THEN 255              \* vertex1.y = -1, field id 7
                     ELSE IF b = 18 THEN 7 ELSE 0
      [] kind = 6 -> IF b \in {6, 18} THEN 1 ELSE 0      \* vertex2.x = 1, field id 1
      [] OTHER    -> Fill(kind - 4, k)                   \* a ramp

GatewayByte(stride, seed, k) ==
    IF k < GatewayOffset \/ k >= GatewayOffset + GatewaySlots * GatewaySlotSize
    THEN Fill(2, k)
    ELSE LET i == (k - GatewayOffset) \div GatewaySlotSize
             b == (k - GatewayOffset) % GatewaySlotSize
         IN  SlotByte((stride * i + seed) % (MaxKind + 1), b, k)

GatewayLengths == {0, GatewayOffset} \cup (GatewayMinLength - 4)..(GatewayMinLength + MaxExtra)

InitGateways ==
    /\ \E stride \in 0..MaxStride, seed \in 0..MaxKind, len \in GatewayLengths :
          gwBuffer = [k \in 1..len |-> GatewayByte(stride, seed, k - 1)]
    /\ gwOutcome = "pending" /\ gateways = <<>> /\ gwReads = {}
    /\ buffer = <<>> /\ outcome = "pending" /\ walkmesh = NoResult
    /\ QueryIdle
    /\ ViewerIdle

\* The call parseGateways(gwBuffer).
ParseGateways ==
    /\ gwOutcome = "pending"
    /\ gateways' = parseGateways(gwBuffer)
    /\ gwReads' = gatewayReads(gwBuffer)
    /\ gwOutcome' = "returned"
    /\ UNCHANGED <<buffer, outcome, walkmesh, gwBuffer, query, found, bounds,
                   centroidFound, calls, viewerVars>>

NextGateways == ParseGateways

SpecGateways == InitGateways /\ [][NextGateways]_vars

-----------------------------------------------------------------------------
(* Properties of parseGateways, checked under SpecGateways.                *)

\* C6: a buffer shorter than 344 bytes yields no gateway; for a longer one
\* every byte read lies inside the buffer, within the slot table 56..343.
C6_ShortEmptyReadsInside ==
    gwOutcome = "returned" =>
        /\ Len(gwBuffer) < 344 => (gateways = <<>> /\ gwReads = {})
        /\ Len(gwBuffer) >= 344 =>
              \A o \in gwReads : o >= 0 /\ o < Len(gwBuffer) /\ o \in 56..343

\* A buffer of exactly 344 bytes whose first and last slot were read in full.
C6_Witness ==
    /\ gwOutcome = "returned"
    /\ Len(gwBuffer) = 344
    /\ 56 \in gwReads /\ 331 \in gwReads /\ 339 \in gwReads

\* The slots a buffer of 344 bytes or more should keep, by arithmetic on its bytes.
SlotFieldId(buf, i) == U16At(buf, 56 + i * 24 + 18)
SlotVertex(buf, o) == [x |-> S16At(buf, o), y |-> S16At(buf, o + 2), z |-> S16At(buf, o + 4)]
SlotKept(buf, i) ==
    /\ SlotFieldId(buf, i) # 0
    /\ \/ S16At(buf, 56 + i * 24) # 0 \/ S16At(buf, 56 + i * 24 + 2) # 0
       \/ S16At(buf, 56 + i * 24 + 6) # 0 \/ S16At(buf, 56 + i * 24 + 8) # 0
KeptSlots(buf) == {i \in 0..11 : SlotKept(buf, i)}

\* C7: the result is the subsequence, in slot order, of the slots with a
\* nonzero field identifier and a nonzero x or y; each gateway carries its
\* slot's field identifier and coordinates.
C7_KeptSlotsInOrder ==
    (gwOutcome = "returned" /\ Len(gwBuffer) >= 344) =>
        /\ Len(gateways) = Cardinality(KeptSlots(gwBuffer))
        /\ Len(gateways) <= 12
        /\ \A i \in KeptSlots(gwBuffer) :
              LET n == Cardinality({j \in KeptSlots(gwBuffer) : j <= i}) IN
              gateways[n] = [vertex1 |-> SlotVertex(gwBuffer, 56 + i * 24),
                             vertex2 |-> SlotVertex(gwBuffer, 56 + i * 24 + 6),
                             fieldId |-> SlotFieldId(gwBuffer, i)]
        /\ \A n \in 1..Len(gateways) : gateways[n].fieldId \in 1..65535

\* A table with a slot skipped for its field identifier, a slot skipped for
\* its zero x and y although its z is not zero, and gateways kept behind them.
C7_Witness ==
    /\ gwOutcome = "returned" /\ Len(gwBuffer) >= 344
    /\ \E i \in 0..11 : SlotFieldId(gwBuffer, i) = 0 /\ S16At(gwBuffer, 56 + i * 24) # 0
    /\ \E i \in 0..10 :
          /\ SlotFieldId(gwBuffer, i) # 0 /\ ~SlotKept(gwBuffer, i)
          /\ S16At(gwBuffer, 56 + i * 24 + 4) # 0
          /\ SlotKept(gwBuffer, i + 1)
    /\ Len(gateways) >= 2
    /\ \E n \in 1..Len(gateways) : gateways[n].fieldId = 65535 /\ gateways[n].vertex2.y < 0

-----------------------------------------------------------------------------
(* JavaScript numbers that need not be integers: exact fractions num / den  *)
(* in lowest terms, den > 0.                                               *)

RECURSIVE GCD(_, _)
GCD(a, b) == IF b = 0 THEN a ELSE GCD(b, a % b)
Abs(a) == IF a < 0 THEN -a ELSE a

Rat(n, d) ==
    LET g == GCD(Abs(n), Abs(d))
        sgn == IF d < 0 THEN -1 ELSE 1
    IN  [num |-> sgn * (n \div g), den |-> sgn * (d \div g)]

\* Mutant: Math.floor in the place of Math.round.
MathFloor(r) == r.num \div r.den
\* Math.round: the nearest integer, a tie going up.
MathRound(r) == (2 * r.num + r.den) \div (2 * r.den)

-----------------------------------------------------------------------------
(* walkmesh.ts: calculateWalkmeshBounds                                    *)

PosInfinity == 2147483647
NegInfinity == -2147483647

MathMin(a, b) == IF b < a THEN b ELSE a
MathMax(a, b) == IF b > a THEN b ELSE a

\* Mutant: the midpoint truncated to an integer.
MidpointTruncated(lo, hi) == Rat((lo + hi) \div 2, 1)
\* (min + max) / 2
Midpoint(lo, hi) == Rat(lo + hi, 2)

\* The vertices in the order the two nested loops visit them.
RECURSIVE VerticesFrom(_, _)
VerticesFrom(triangles, i) ==
    IF i > Len(triangles) THEN <<>> ELSE triangles[i].vertices \o VerticesFrom(triangles, i + 1)

RECURSIVE BoundsLoop(_, _, _)
\* The loop body from vertex k on, over the six running extrema.
BoundsLoop(vs, k, acc) ==
    IF k > Len(vs) THEN acc
    ELSE BoundsLoop(vs, k + 1,
                    [minX |-> MathMin(acc.minX, vs[k].x), maxX |-> MathMax(acc.maxX, vs[k].x),
                     minY |-> MathMin(acc.minY, vs[k].y), maxY |-> MathMax(acc.maxY, vs[k].y),
                     minZ |-> MathMin(acc.minZ, vs[k].z), maxZ |-> MathMax(acc.maxZ, vs[k].z)])

calculateWalkmeshBounds(wm) ==
    IF Len(wm.triangles) = 0
    THEN [minX |-> 0, maxX |-> 0, minY |-> 0, maxY |-> 0, minZ |-> 0, maxZ |-> 0,
          centerX |-> Rat(0, 1), centerY |-> Rat(0, 1), centerZ |-> Rat(0, 1)]
    ELSE LET e == BoundsLoop(VerticesFrom(wm.triangles, 1), 1,
                             [minX |-> PosInfinity, maxX |-> NegInfinity,
                              minY |-> PosInfinity, maxY |-> NegInfinity,
                              minZ |-> PosInfinity, maxZ |-> NegInfinity])
         IN  [minX |-> e.minX, maxX |-> e.maxX, minY |-> e.minY, maxY |-> e.maxY,
              minZ |-> e.minZ, maxZ |-> e.maxZ,
              centerX |-> Midpoint(e.minX, e.maxX),
              centerY |-> Midpoint(e.minY, e.maxY),
              centerZ |-> Midpoint(e.minZ, e.maxZ)]

-----------------------------------------------------------------------------
(* WalkmeshMesh.tsx: pointInTriangle, calculateZAtPoint,                   *)
(* findTriangleAtPosition                                                  *)

\* Mutant: the comparisons made strict, so that the boundary is outside.
pointInTriangleOpen(px, py, v0x, v0y, v1x, v1y, v2x, v2y) ==
    LET dX == px - v2x
        dY == py - v2y
        dX21 == v2x - v1x
        dY12 == v1y - v2y
        D == dY12 * (v0x - v2x) + dX21 * (v0y - v2y)
        s == dY12 * dX + dX21 * dY
        t == (v2y - v0y) * dX + (v0x - v2x) * dY
    IN  IF D < 0 THEN s < 0 /\ t < 0 /\ s + t > D
        ELSE s > 0 /\ t > 0 /\ s + t < D
pointInTriangle(px, py, v0x, v0y, v1x, v1y, v2x, v2y) ==
    LET dX == px - v2x
        dY == py - v2y
        dX21 == v2x - v1x
        dY12 == v1y - v2y
        D == dY12 * (v0x - v2x) + dX21 * (v0y - v2y)
        s == dY12 * dX + dX21 * dY
        t == (v2y - v0y) * dX + (v0x - v2x) * dY
    IN  IF D < 0 THEN s <= 0 /\ t <= 0 /\ s + t >= D
        ELSE s >= 0 /\ t >= 0 /\ s + t <= D

\* Mutant: the weights of vertex 0 and vertex 1 exchanged.
calculateZAtPointSwapped(x, y, tri) ==
    LET v0 == tri.vertices[1]
        v1 == tri.vertices[2]
        v2 == tri.vertices[3]
        denom == (v1.y - v2.y) * (v0.x - v2.x) + (v2.x - v1.x) * (v0.y - v2.y)
        n0 == (v1.y - v2.y) * (x - v2.x) + (v2.x - v1.x) * (y - v2.y)
        n1 == (v2.y - v0.y) * (x - v2.x) + (v0.x - v2.x) * (y - v2.y)
    IN  IF denom = 0 THEN Rat(v0.z + v1.z + v2.z, 3)
        ELSE Rat(n1 * v0.z + n0 * v1.z + (denom - n0 - n1) * v2.z, denom)

\* With integer coordinates |denom| < 0.0001 is denom = 0.  The weighted sum
\* w0*z0 + w1*z1 + w2*z2, w2 = 1 - w0 - w1, is kept as an exact fraction; the
\* code computes it in double precision, which rounds to the same integer
\* for every triangle and contained point of the grids drawn below.
calculateZAtPoint(x, y, tri) ==
    LET v0 == tri.vertices[1]
        v1 == tri.vertices[2]
        v2 == tri.vertices[3]
        denom == (v1.y - v2.y) * (v0.x - v2.x) + (v2.x - v1.x) * (v0.y - v2.y)
        n0 == (v1.y - v2.y) * (x - v2.x) + (v2.x - v1.x) * (y - v2.y)
        n1 == (v2.y - v0.y) * (x - v2.x) + (v0.x - v2.x) * (y - v2.y)
    IN  IF denom = 0 THEN Rat(v0.z + v1.z + v2.z, 3)
        ELSE Rat(n0 * v0.z + n1 * v1.z + (denom - n0 - n1) * v2.z, denom)

Passes(wm, x, y, i) ==
    LET v == wm.triangles[i + 1].vertices IN
    pointInTriangle(x, y, v[1].x, v[1].y, v[2].x, v[2].y, v[3].x, v[3].y)

NotFound == [triangleId |-> -1, z |-> 0]

RECURSIVE FindFromKeepLast(_, _, _, _)
\* Mutant: the scan goes on after a match, so the last match wins.
FindFromKeepLast(wm, x, y, i) ==
    IF i >= Len(wm.triangles) THEN NotFound
    ELSE LET rest == FindFromKeepLast(wm, x, y, i + 1) IN
         IF Passes(wm, x, y, i) /\ rest = NotFound
         THEN [triangleId |-> i, z |-> MathRound(calculateZAtPoint(x, y, wm.triangles[i + 1]))]
         ELSE rest
RECURSIVE FindFrom(_, _, _, _)
\* The loop for (i = 0; i < triangles.length; i++) from iteration i on.
FindFrom(wm, x, y, i) ==
    IF i >= Len(wm.triangles) THEN NotFound
    ELSE IF Passes(wm, x, y, i)
         THEN [triangleId |-> i, z |-> MathRound(calculateZAtPoint(x, y, wm.triangles[i + 1]))]
         ELSE FindFrom(wm, x, y, i + 1)

findTriangleAtPosition(wm, x, y) == FindFrom(wm, x, y, 0)

\* The same three functions at a point with fractional coordinates
\* (xn / q, yn / q), q > 0.  Every quantity that is linear in the point is
\* carried multiplied by q, so the comparisons and the quotient are exact.
pointInTriangleAt(xn, yn, q, v0x, v0y, v1x, v1y, v2x, v2y) ==
    LET dX == xn - q * v2x
        dY == yn - q * v2y
        dX21 == v2x - v1x
        dY12 == v1y - v2y
        D == dY12 * (v0x - v2x) + dX21 * (v0y - v2y)
        s == dY12 * dX + dX21 * dY
        t == (v2y - v0y) * dX + (v0x - v2x) * dY
    IN  IF D < 0 THEN s <= 0 /\ t <= 0 /\ s + t >= q * D
        ELSE s >= 0 /\ t >= 0 /\ s + t <= q * D

calculateZAtPointAt(xn, yn, q, tri) ==
    LET v0 == tri.vertices[1]
        v1 == tri.vertices[2]
        v2 == tri.vertices[3]
        denom == (v1.y - v2.y) * (v0.x - v2.x) + (v2.x - v1.x) * (v0.y - v2.y)
        n0 == (v1.y - v2.y) * (xn - q * v2.x) + (v2.x - v1.x) * (yn - q * v2.y)
        n1 == (v2.y - v0.y) * (xn - q * v2.x) + (v0.x - v2.x) * (yn - q * v2.y)
    IN  IF denom = 0 THEN Rat(v0.z + v1.z + v2.z, 3)
        ELSE Rat(n0 * v0.z + n1 * v1.z + (q * denom - n0 - n1) * v2.z, q * denom)

RECURSIVE FindFromAt(_, _, _, _, _)
FindFromAt(wm, xn, yn, q, i) ==
    IF i >= Len(wm.triangles) THEN NotFound
    ELSE LET v == wm.triangles[i + 1].vertices IN
         IF pointInTriangleAt(xn, yn, q, v[1].x, v[1].y, v[2].x, v[2].y, v[3].x, v[3].y)
         THEN [triangleId |-> i,
               z |-> MathRound(calculateZAtPointAt(xn, yn, q, wm.triangles[i + 1]))]
         ELSE FindFromAt(wm, xn, yn, q, i + 1)

findTriangleAtPositionAt(wm, xn, yn, q) == FindFromAt(wm, xn, yn, q, 0)

-----------------------------------------------------------------------------
(* Inputs of the bounds calculator and the query engine: decoded           *)
(* walkmeshes with vertices on a small grid, and integer query points      *)
(* (the caller rounds the dragged position before it queries).             *)

\* Vertex x and y range over 0..MaxCoord, queries over -1..MaxCoord + 1.
MaxCoord == 2

Grid == 0..MaxCoord
ZProfiles == {<<0, 0, 30>>, <<-7, 5, 4>>}

Tri(a, b, c, zs) ==
    [vertices |-> <<[x |-> a[1], y |-> a[2], z |-> zs[1]],
                    [x |-> b[1], y |-> b[2], z |-> zs[2]],
                    [x |-> c[1], y |-> c[2], z |-> zs[3]]>>,
     access |-> <<BLOCKED, BLOCKED, BLOCKED>>]

\* The triangle every two-triangle walkmesh holds besides a grid triangle.
Companion == Tri(<<0, 0>>, <<MaxCoord, 0>>, <<0, MaxCoord>>, <<10, 10, 10>>)

Mesh(ts) == [triangleCount |-> Len(ts), triangles |-> ts]

\* No triangle, a grid triangle, or a grid triangle before or behind Companion.
QueryMeshes(t) == {EmptyWalkmesh, Mesh(<<t>>), Mesh(<<t, Companion>>), Mesh(<<Companion, t>>)}

QueryCoords == (-1)..(MaxCoord + 1)

\* The triangle (0,0,0), (10,0,0), (0,10,30), whose centroid is (10/3, 10/3).
SlopeTriangle == Tri(<<0, 0>>, <<10, 0>>, <<0, 10>>, <<0, 0, 30>>)

\* The signed area term (D, denom) of the vertices a, b, c.
AreaD(a, b, c) == (b.y - c.y) * (a.x - c.x) + (c.x - b.x) * (a.y - c.y)

NonDegenerate(v) == AreaD(v[1], v[2], v[3]) # 0

InitQuery ==
    /\ \/ \E a \in Grid \X Grid, b \in Grid \X Grid, c \in Grid \X Grid, zs \in ZProfiles :
             walkmesh \in QueryMeshes(Tri(a, b, c, zs))
       \/ walkmesh = Mesh(<<SlopeTriangle>>)
    /\ outcome = "returned"
    /\ buffer = <<>>
    /\ gwBuffer = <<>> /\ gwOutcome = "pending" /\ gateways = <<>> /\ gwReads = {}
    /\ QueryIdle
    /\ ViewerIdle

\* WalkmeshViewer's useMemo: the bounds of the walkmesh it was handed.
CalculateBounds ==
    /\ outcome = "returned"
    /\ bounds = NoResult
    /\ bounds' = calculateWalkmeshBounds(walkmesh)
    /\ UNCHANGED <<buffer, outcome, walkmesh, gwBuffer, gwOutcome, gateways, gwReads,
                   query, found, centroidFound, calls, viewerVars>>

\* The call findTriangleAtPosition(walkmesh, x, y) of a rendered walkmesh.
FindTriangle(x, y) ==
    /\ bounds # NoResult
    /\ found = NoResult /\ centroidFound = NoResult
    /\ query' = [x |-> x, y |-> y]
    /\ found' = findTriangleAtPosition(walkmesh, x, y)
    /\ UNCHANGED <<buffer, outcome, walkmesh, gwBuffer, gwOutcome, gateways, gwReads, bounds,
                   centroidFound, calls, viewerVars>>

\* The call findTriangleAtPosition(walkmesh, cx, cy) with (cx, cy) the
\* centroid of triangle 0, a point with thirds for coordinates.
FindTriangleAtCentroid ==
    /\ bounds # NoResult
    /\ found = NoResult /\ centroidFound = NoResult
    /\ Len(walkmesh.triangles) > 0
    /\ NonDegenerate(walkmesh.triangles[1].vertices)
    /\ LET v == walkmesh.triangles[1].vertices IN
          centroidFound' = findTriangleAtPositionAt(walkmesh, v[1].x + v[2].x + v[3].x,
                                                    v[1].y + v[2].y + v[3].y, 3)
    /\ UNCHANGED <<buffer, outcome, walkmesh, gwBuffer, gwOutcome, gateways, gwReads, bounds,
                   query, found, calls, viewerVars>>

NextQuery ==
    \/ CalculateBounds
    \/ \E x \in QueryCoords, y \in QueryCoords : FindTriangle(x, y)
    \/ FindTriangleAtCentroid

SpecQuery == InitQuery /\ [][NextQuery]_vars

-----------------------------------------------------------------------------
(* Repeated queries of one walkmesh from the two call sites of             *)
(* sendPositionUpdate, in any order.  A call runs to completion before the *)
(* next one starts (JavaScript runs one handler at a time).                *)

InitCallers ==
    /\ \E c \in Grid \X Grid, zs \in ZProfiles :
          walkmesh = Mesh(<<Companion, Tri(<<0, 0>>, <<MaxCoord, MaxCoord>>, c, zs)>>)
    /\ outcome = "returned"
    /\ buffer = <<>>
    /\ gwBuffer = <<>> /\ gwOutcome = "pending" /\ gateways = <<>> /\ gwReads = {}
    /\ QueryIdle
    /\ ViewerIdle

\* Mutant: a query that moves the triangle it found to the front of the list.
CallMoveToFront(c, x, y) ==
    LET r == findTriangleAtPosition(walkmesh, x, y)
        ts == walkmesh.triangles
    IN  /\ walkmesh # NoResult
        /\ calls' = [calls EXCEPT ![c] = [x |-> x, y |-> y, result |-> r]]
        /\ walkmesh' = IF r.triangleId <= 0 THEN walkmesh
                       ELSE [walkmesh EXCEPT !.triangles =
                                <<ts[r.triangleId + 1]>>
                                \o SubSeq(ts, 1, r.triangleId)
                                \o SubSeq(ts, r.triangleId + 2, Len(ts))]
        /\ UNCHANGED <<buffer, outcome, gwBuffer, gwOutcome, gateways, gwReads,
                       query, found, bounds, centroidFound, viewerVars>>

\* Caller c evaluates findTriangleAtPosition(walkmesh, x, y) and keeps the
\* result; the function assigns to nothing but its own locals.
Call(c, x, y) ==
    /\ walkmesh # NoResult
    /\ calls' = [calls EXCEPT ![c] = [x |-> x, y |-> y,
                                      result |-> findTriangleAtPosition(walkmesh, x, y)]]
    /\ UNCHANGED <<buffer, outcome, walkmesh, gwBuffer, gwOutcome, gateways, gwReads,
                   query, found, bounds, centroidFound, viewerVars>>

NextCallers == \E c \in Callers, x \in Grid, y \in Grid : Call(c, x, y)

SpecCallers == InitCallers /\ [][NextCallers]_vars

-----------------------------------------------------------------------------
(* Inputs of the viewer: event payloads whose buffers encode small         *)
(* walkmeshes and gateway tables, short model lists, and a few positions   *)
(* a dragged group can be left at.                                         *)

\* The two little-endian bytes of a 16-bit value.
Bytes16(v) ==
    LET u == IF v < 0 THEN v + 65536 ELSE v IN <<u % 256, u \div 256>>

VertexBytes(v) == Bytes16(v.x) \o Bytes16(v.y) \o Bytes16(v.z) \o <<0, 0>>

RECURSIVE SectorsFrom(_, _)
SectorsFrom(ts, i) ==
    IF i > Len(ts) THEN <<>>
    ELSE VertexBytes(ts[i].vertices[1]) \o VertexBytes(ts[i].vertices[2])
         \o VertexBytes(ts[i].vertices[3]) \o SectorsFrom(ts, i + 1)

RECURSIVE AccessesFrom(_, _)
AccessesFrom(ts, i) ==
    IF i > Len(ts) THEN <<>>
    ELSE Bytes16(ts[i].access[1]) \o Bytes16(ts[i].access[2]) \o Bytes16(ts[i].access[3])
         \o AccessesFrom(ts, i + 1)

\* The buffer of a walkmesh section that holds the triangles ts.
EncodeWalkmesh(ts) == <<Len(ts), 0, 0, 0>> \o SectorsFrom(ts, 1) \o AccessesFrom(ts, 1)

\* A sloped triangle that shares its diagonal with no edge of Companion.
Ramp == Tri(<<0, 0>>, <<MaxCoord, MaxCoord>>, <<0, MaxCoord>>, <<-7, 5, 2>>)

FlatBuffer == EncodeWalkmesh(<<Companion>>)
RampBuffer == EncodeWalkmesh(<<Ramp, Companion>>)
\* A header whose count has its top bit set.
HighBitBuffer == <<0, 0, 0, 128>>

GatewayTable(stride, seed, len) == [k \in 1..len |-> GatewayByte(stride, seed, k - 1)]

\* A table of twelve kept gateways, and a table cut short.
FullTable == GatewayTable(0, 6, GatewayMinLength)
ShortTable == GatewayTable(1, 0, GatewayOffset)

\* The coordinate magnitude beyond which WalkmeshMesh renders no model.
FarLimit == 50000

Hero == [x |-> 0, y |-> 0, z |-> 0]
Npc == [x |-> 1, y |-> MaxCoord, z |-> 10]
Offstage == [x |-> 0, y |-> 0, z |-> FarLimit + 1]

\* A payload's fieldModels: undefined, or a list.
Missing == [given |-> FALSE, list |-> <<>>]
Given(list) == [given |-> TRUE, list |-> list]

ModelLists == {Missing, Given(<<>>), Given(<<Hero>>), Given(<<Hero, Npc>>),
               Given(<<Offstage, Npc>>)}

WalkmeshBuffers == {FlatBuffer, RampBuffer, HighBitBuffer}
GatewayTables == {ShortTable, FullTable}

\* Payloads of the events that arrive while models are dragged; null is
\* drawn as NoResult.
ViewerPayloads ==
    {NoResult} \cup
    [walkmeshBuffer : {<<>>} \cup WalkmeshBuffers,
     gatewaysBuffer : {<<>>},
     fieldModels : ModelLists,
     fieldName : {"", "md1"},
     fieldId : {0}]

\* Payloads that vary every field of the event.
FieldDataPayloads ==
    {NoResult} \cup
    [walkmeshBuffer : {<<>>, FlatBuffer, RampBuffer},
     gatewaysBuffer : {<<>>} \cup GatewayTables,
     fieldModels : {Missing, Given(<<Hero>>)},
     fieldName : {"", "md1"},
     fieldId : {0, 1, 2}]

\* parseWalkmesh and parseGateways of each buffer a payload can carry,
\* decoded once and looked up by the handler.
DecodedWalkmesh == [b \in WalkmeshBuffers |-> parseWalkmesh(b)]
DecodedGateways == [b \in GatewayTables |-> parseGateways(b)]

\* Group positions a drag can end at, in half units: (0.5, -0.5), (1.5, 0.5)
\* and (-1.5, -4), reported as (1, 1), (2, 0) and (-1, 4).
DragPoints == {[x2 |-> 1, z2 |-> -1], [x2 |-> 3, z2 |-> 1], [x2 |-> -3, z2 |-> -8]}

-----------------------------------------------------------------------------
(* The viewer: App (index.tsx), WalkmeshViewer (WalkmeshViewer.tsx),       *)
(* WalkmeshMesh and its DraggableModels (WalkmeshMesh.tsx).                *)
(* walkmesh = NoResult is App's initial null.  An event handler and the    *)
(* render and effects that its state updates cause are one step: the next  *)
(* event is dispatched to the handlers of the finished render.            *)
(* A position is kept in half units (x2 = 2 * position.x), so that         *)
(* Math.round has something to round.                                      *)

IsFar(model) ==
    Abs(model.x) > FarLimit \/ Abs(model.y) > FarLimit \/ Abs(model.z) > FarLimit

\* The fieldModels prop WalkmeshViewer passes to WalkmeshMesh.
ShownModels(models, show) == IF show THEN models ELSE <<>>

\* The indices whose DraggableModel is rendered: none without a walkmesh.
Mounted(wm, models, show) ==
    IF wm = NoResult THEN {}
    ELSE {i \in 0..(Len(ShownModels(models, show)) - 1) : ~IsFar(ShownModels(models, show)[i + 1])}

\* The group's position prop [model.x, model.z, -model.y]: its x and z.
GroupPosition(model) == [x2 |-> 2 * model.x, z2 |-> -2 * model.y]

\* A render with the given walkmesh, models and Models switch.  A
\* DraggableModel keeps its refs and state while its key (the index) stays
\* rendered, and a new one starts from useRef(false); the position prop is
\* applied at mount and when its value changed.  The effect cleanup of an
\* unmounted model removes its window listeners and nothing else.
Rerender(wmNew, modelsNew, showNew) ==
    LET before == Mounted(walkmesh, fieldModels, showModels)
        after == Mounted(wmNew, modelsNew, showNew)
        old == ShownModels(fieldModels, showModels)
        new == ShownModels(modelsNew, showNew)
    IN  /\ dragging' = dragging \cap after
        /\ position' = [i \in after |->
                           IF i \in before /\ GroupPosition(new[i + 1]) = GroupPosition(old[i + 1])
                           THEN position[i]
                           ELSE GroupPosition(new[i + 1])]
        /\ bounds' = IF wmNew = NoResult THEN NoResult ELSE calculateWalkmeshBounds(wmNew)

\* if (data.walkmeshBuffer && data.walkmeshBuffer.length > 0); a missing
\* buffer is drawn as the empty one, the two take the same branch.
HasBytes(data, field) == data # NoResult /\ Len(data[field]) > 0

\* Mutant: the gateways are decoded from whatever buffer the event carries.
HandleFieldDataAllGateways(data) ==
    LET wmNew == IF HasBytes(data, "walkmeshBuffer")
                 THEN DecodedWalkmesh[data.walkmeshBuffer] ELSE walkmesh
        modelsNew == IF data # NoResult /\ data.fieldModels.given
                     THEN data.fieldModels.list ELSE fieldModels
    IN  /\ walkmesh' = wmNew
        /\ isLoading' = IF HasBytes(data, "walkmeshBuffer") THEN FALSE ELSE isLoading
        /\ gateways' = IF data # NoResult
                       THEN (IF data.gatewaysBuffer = <<>> THEN <<>>
                             ELSE DecodedGateways[data.gatewaysBuffer])
                       ELSE gateways
        /\ fieldModels' = modelsNew
        /\ fieldName' = IF data # NoResult /\ data.fieldName # "" THEN data.fieldName
                        ELSE fieldName
        /\ appFieldId' = IF data # NoResult /\ data.fieldId # 0 THEN data.fieldId
                         ELSE appFieldId
        /\ Rerender(wmNew, modelsNew, showModels)
        /\ delivered' = data
        /\ emitted' = {}
        /\ UNCHANGED <<showModels, controlsEnabled, buffer, outcome, gwBuffer, gwOutcome,
                       gwReads, query, found, centroidFound, calls>>

\* The listener of "field-walkmesh-data" with payload data, and the render
\* that follows its state updates.
HandleFieldData(data) ==
    LET wmNew == IF HasBytes(data, "walkmeshBuffer")
                 THEN DecodedWalkmesh[data.walkmeshBuffer] ELSE walkmesh
        modelsNew == IF data # NoResult /\ data.fieldModels.given
                     THEN data.fieldModels.list ELSE fieldModels
    IN  /\ walkmesh' = wmNew
        /\ isLoading' = IF HasBytes(data, "walkmeshBuffer") THEN FALSE ELSE isLoading
        /\ gateways' = IF HasBytes(data, "gatewaysBuffer")
                       THEN DecodedGateways[data.gatewaysBuffer] ELSE gateways
        /\ fieldModels' = modelsNew
        /\ fieldName' = IF data # NoResult /\ data.fieldName # "" THEN data.fieldName
                        ELSE fieldName
        /\ appFieldId' = IF data # NoResult /\ data.fieldId # 0 THEN data.fieldId
                         ELSE appFieldId
        /\ Rerender(wmNew, modelsNew, showModels)
        /\ delivered' = data
        /\ emitted' = {}
        /\ UNCHANGED <<showModels, controlsEnabled, buffer, outcome, gwBuffer, gwOutcome,
                       gwReads, query, found, centroidFound, calls>>

\* The Models switch: setShowModels and the render that follows.
ToggleModels ==
    /\ showModels' = ~showModels
    /\ Rerender(walkmesh, fieldModels, ~showModels)
    /\ delivered' = NoResult
    /\ emitted' = {}
    /\ UNCHANGED <<walkmesh, isLoading, gateways, fieldModels, fieldName, appFieldId,
                   controlsEnabled, buffer, outcome, gwBuffer, gwOutcome, gwReads,
                   query, found, centroidFound, calls>>

\* Mutant: the query is made at (newY, newX).
sendPositionUpdateTransposed(wm, index, pos) ==
    LET newX == MathRound(Rat(pos.x2, 2))
        newY == MathRound(Rat(-pos.z2, 2))
        info == findTriangleAtPosition(wm, newY, newX)
    IN  [modelIndex |-> index, x |-> newX, y |-> newY, z |-> info.z,
         triangleId |-> info.triangleId]

\* sendPositionUpdate of the DraggableModel with the given index whose group
\* is at pos: the message handleModelPositionChange emits.
sendPositionUpdate(wm, index, pos) ==
    LET newX == MathRound(Rat(pos.x2, 2))
        newY == MathRound(Rat(-pos.z2, 2))
        info == findTriangleAtPosition(wm, newX, newY)
    IN  [modelIndex |-> index, x |-> newX, y |-> newY, z |-> info.z,
         triangleId |-> info.triangleId]

\* handlePointerDown of model i; only button 0 starts a drag.
PointerDown(i, button) ==
    /\ i \in Mounted(walkmesh, fieldModels, showModels)
    /\ IF button # 0
       THEN UNCHANGED <<dragging, controlsEnabled>>
       ELSE /\ dragging' = dragging \cup {i}
            /\ controlsEnabled' = FALSE
    /\ delivered' = NoResult
    /\ emitted' = {}
    /\ UNCHANGED <<walkmesh, isLoading, gateways, fieldModels, fieldName, appFieldId,
                   showModels, position, bounds, buffer, outcome, gwBuffer, gwOutcome,
                   gwReads, query, found, centroidFound, calls>>

\* A mousemove on window: handleMouseMove of every model that is being
\* dragged.  moved gives the group position updatePosition leaves each of
\* them at, due the models whose 50 ms throttle lets the update through.
MouseMove(moved, due) ==
    /\ dragging # {}
    /\ DOMAIN moved = dragging /\ due \subseteq dragging
    /\ position' = [i \in DOMAIN position |-> IF i \in dragging THEN moved[i] ELSE position[i]]
    /\ emitted' = {sendPositionUpdate(walkmesh, i, moved[i]) : i \in due}
    /\ delivered' = NoResult
    /\ UNCHANGED <<walkmesh, isLoading, gateways, fieldModels, fieldName, appFieldId,
                   showModels, dragging, controlsEnabled, bounds, buffer, outcome, gwBuffer,
                   gwOutcome, gwReads, query, found, centroidFound, calls>>

\* A mouseup on window: handleMouseUp of every model that is being dragged.
MouseUp ==
    /\ dragging # {}
    /\ dragging' = {}
    /\ controlsEnabled' = TRUE
    /\ emitted' = {sendPositionUpdate(walkmesh, i, position[i]) : i \in dragging}
    /\ delivered' = NoResult
    /\ UNCHANGED <<walkmesh, isLoading, gateways, fieldModels, fieldName, appFieldId,
                   showModels, position, bounds, buffer, outcome, gwBuffer, gwOutcome,
                   gwReads, query, found, centroidFound, calls>>

-----------------------------------------------------------------------------
(* The viewer from its initial state, under the events above.              *)

\* App before the first event: walkmesh null, no gateways, no models.
InitViewer ==
    /\ walkmesh = NoResult
    /\ outcome = "pending"
    /\ buffer = <<>>
    /\ gwBuffer = <<>> /\ gwOutcome = "pending" /\ gateways = <<>> /\ gwReads = {}
    /\ QueryIdle
    /\ ViewerIdle

NextViewer ==
    \/ \E data \in ViewerPayloads : HandleFieldData(data)
    \/ ToggleModels
    \/ \E i \in DOMAIN position, button \in {0, 2} : PointerDown(i, button)
    \/ \E moved \in [dragging -> DragPoints \cup {position[i] : i \in dragging}],
          due \in SUBSET dragging : MouseMove(moved, due)
    \/ MouseUp

SpecViewer == InitViewer /\ [][NextViewer]_vars

NextFieldData == \E data \in FieldDataPayloads : HandleFieldData(data)

SpecFieldData == InitViewer /\ [][NextFieldData]_vars

-----------------------------------------------------------------------------
(* The decoders, the query engine and the viewer together.                 *)

Init == InitWalkmesh \/ InitGateways \/ InitQuery \/ InitCallers \/ InitViewer

Next ==
    \/ ParseWalkmesh \/ ParseGateways \/ NextQuery \/ NextCallers
    \/ NextViewer \/ NextFieldData

Spec == Init /\ [][Next]_vars

-----------------------------------------------------------------------------
(* Properties of calculateWalkmeshBounds and findTriangleAtPosition,       *)
(* checked under SpecQuery.                                                *)

AllVertices(wm) == {wm.triangles[i].vertices[j] : i \in 1..Len(wm.triangles), j \in 1..3}

IsMidpoint(c, lo, hi) == 2 * c.num = (lo + hi) * c.den /\ lo * c.den <= c.num /\ c.num <= hi * c.den

\* C8: the bounds of a walkmesh without triangles are nine zeros; otherwise
\* each axis' min and max are the extrema over every vertex of every
\* triangle and its center is the midpoint of that min and max.
C8_BoundsAreExtremaAndMidpoints ==
    bounds # NoResult =>
        IF Len(walkmesh.triangles) = 0
        THEN /\ bounds.minX = 0 /\ bounds.maxX = 0 /\ bounds.minY = 0 /\ bounds.maxY = 0
             /\ bounds.minZ = 0 /\ bounds.maxZ = 0
             /\ bounds.centerX.num = 0 /\ bounds.centerY.num = 0 /\ bounds.centerZ.num = 0
        ELSE LET V == AllVertices(walkmesh) IN
             /\ \A v \in V : bounds.minX <= v.x /\ v.x <= bounds.maxX
             /\ \A v \in V : bounds.minY <= v.y /\ v.y <= bounds.maxY
             /\ \A v \in V : bounds.minZ <= v.z /\ v.z <= bounds.maxZ
             /\ \E v \in V : v.x = bounds.minX
             /\ \E v \in V : v.x = bounds.maxX
             /\ \E v \in V : v.y = bounds.minY
             /\ \E v \in V : v.y = bounds.maxY
             /\ \E v \in V : v.z = bounds.minZ
             /\ \E v \in V : v.z = bounds.maxZ
             /\ IsMidpoint(bounds.centerX, bounds.minX, bounds.maxX)
             /\ IsMidpoint(bounds.centerY, bounds.minY, bounds.maxY)
             /\ IsMidpoint(bounds.centerZ, bounds.minZ, bounds.maxZ)

\* Bounds of two triangles whose z center is a half-integer midpoint that
\* differs from the mean of the six z coordinates, with the z extrema taken
\* from different triangles.
C8_Witness ==
    /\ bounds # NoResult
    /\ Len(walkmesh.triangles) = 2
    /\ bounds.centerZ.den = 2
    /\ LET zs == [k \in 1..6 |-> walkmesh.triangles[(k + 2) \div 3].vertices[((k - 1) % 3) + 1].z]
       IN  6 * bounds.centerZ.num # 2 * (zs[1] + zs[2] + zs[3] + zs[4] + zs[5] + zs[6])
    /\ bounds.minZ < 0 /\ bounds.maxZ = 10
    /\ bounds.minX < bounds.maxX

\* C9: a result i >= 0 is the lowest index whose triangle passes the
\* point-in-triangle test; the result is the sentinel (-1, 0) exactly when
\* no triangle passes it.
C9_LowestPassingIndex ==
    found # NoResult =>
        LET n == Len(walkmesh.triangles)
            pass == {i \in 0..(n - 1) : Passes(walkmesh, query.x, query.y, i)}
        IN  /\ found.triangleId \in (-1)..(n - 1)
            /\ found.triangleId >= 0 =>
                  /\ found.triangleId \in pass
                  /\ \A j \in pass : j >= found.triangleId
            /\ (found.triangleId = -1) <=> (pass = {})
            /\ (found.triangleId = -1) => found.z = 0
            /\ (found = NotFound) <=> (pass = {})

\* A query that two triangles both pass and that resolved to the first.
C9_Witness ==
    /\ found # NoResult
    /\ Len(walkmesh.triangles) = 2
    /\ Passes(walkmesh, query.x, query.y, 0) /\ Passes(walkmesh, query.x, query.y, 1)
    /\ found.triangleId = 0
    /\ walkmesh.triangles[1] # walkmesh.triangles[2]

\* Membership of a point in the closed triangle a, b, c of the plane, a
\* segment or a point when a, b, c are collinear.
Orient(a, b, p) == (b.x - a.x) * (p.y - a.y) - (b.y - a.y) * (p.x - a.x)
Between(lo1, lo2, lo3, v) ==
    /\ v >= MathMin(lo1, MathMin(lo2, lo3))
    /\ v <= MathMax(lo1, MathMax(lo2, lo3))
InClosedTriangle(p, a, b, c) ==
    LET o1 == Orient(a, b, p)
        o2 == Orient(b, c, p)
        o3 == Orient(c, a, p)
    IN  IF Orient(a, b, c) # 0
        THEN (o1 >= 0 /\ o2 >= 0 /\ o3 >= 0) \/ (o1 <= 0 /\ o2 <= 0 /\ o3 <= 0)
        ELSE /\ o1 = 0 /\ o2 = 0 /\ o3 = 0
             /\ Between(a.x, b.x, c.x, p.x) /\ Between(a.y, b.y, c.y, p.y)

\* A point is in the convex hull of a finite set exactly when it is in the
\* closed triangle of three of its points.
StrictlyOutsideHull(p, V) == \A a \in V, b \in V, c \in V : ~InClosedTriangle(p, a, b, c)

\* C10: a query strictly outside the convex hull of all vertices returns
\* triangleId = -1 and z = 0.
C10_OutsideHullNotFound ==
    (found # NoResult /\ StrictlyOutsideHull(query, AllVertices(walkmesh))) => found = NotFound

-----------------------------------------------------------------------------
(* Properties of pointInTriangle, checked under SpecQuery.                 *)

TestAt(p, a, b, c) == pointInTriangle(p.x, p.y, a.x, a.y, b.x, b.y, c.x, c.y)

\* p lies on the closed segment from a to b.
OnSegment(p, a, b) ==
    /\ Orient(a, b, p) = 0
    /\ MathMin(a.x, b.x) <= p.x /\ p.x <= MathMax(a.x, b.x)
    /\ MathMin(a.y, b.y) <= p.y /\ p.y <= MathMax(a.y, b.y)

OnBoundary(p, a, b, c) == OnSegment(p, a, b) \/ OnSegment(p, b, c) \/ OnSegment(p, c, a)

SamePoint(a, b) == a.x = b.x /\ a.y = b.y

\* p lies on an edge that the triangles with vertices v and w have in common.
OnSharedEdge(p, v, w) ==
    \E j \in 1..3, k \in 1..3 :
        LET a == v[j]
            b == v[(j % 3) + 1]
            c == w[k]
            d == w[(k % 3) + 1]
        IN  /\ OnSegment(p, a, b)
            /\ (SamePoint(a, c) /\ SamePoint(b, d)) \/ (SamePoint(a, d) /\ SamePoint(b, c))

\* C11: for a triangle with nonzero signed area D the test gives the same
\* answer under every reordering of the three vertices, every point on an
\* edge or at a vertex is inside, and a point on an edge that two such
\* triangles share is inside at least one of them.
C11_BoundaryInclusiveAnyWinding ==
    found # NoResult =>
        /\ \A i \in 1..Len(walkmesh.triangles) :
              LET v == walkmesh.triangles[i].vertices
                  a == v[1]
                  b == v[2]
                  c == v[3]
                  r == TestAt(query, a, b, c)
              IN  NonDegenerate(v) =>
                     /\ TestAt(query, b, a, c) = r
                     /\ TestAt(query, a, c, b) = r
                     /\ TestAt(query, c, b, a) = r
                     /\ TestAt(query, b, c, a) = r
                     /\ TestAt(query, c, a, b) = r
                     /\ OnBoundary(query, a, b, c) => r
        /\ \A i \in 1..Len(walkmesh.triangles), j \in 1..Len(walkmesh.triangles) :
              LET v == walkmesh.triangles[i].vertices
                  w == walkmesh.triangles[j].vertices
              IN  (i # j /\ NonDegenerate(v) /\ NonDegenerate(w) /\ OnSharedEdge(query, v, w))
                     => (Passes(walkmesh, query.x, query.y, i - 1)
                         \/ Passes(walkmesh, query.x, query.y, j - 1))

\* A query strictly between the ends of the edge shared by a triangle of
\* positive and a triangle of negative signed area, resolved to the first.
C11_Witness ==
    /\ found # NoResult
    /\ Len(walkmesh.triangles) = 2
    /\ LET v == walkmesh.triangles[1].vertices
           w == walkmesh.triangles[2].vertices
       IN  /\ AreaD(v[1], v[2], v[3]) < 0
           /\ AreaD(w[1], w[2], w[3]) > 0
           /\ OnSharedEdge(query, v, w)
           /\ \A k \in 1..3 : <<query.x, query.y>> # <<v[k].x, v[k].y>>
    /\ found.triangleId = 0

-----------------------------------------------------------------------------
(* Properties of the elevation returned by findTriangleAtPosition,         *)
(* checked under SpecQuery.                                                *)

MinZ(v) == MathMin(v[1].z, MathMin(v[2].z, v[3].z))
MaxZ(v) == MathMax(v[1].z, MathMax(v[2].z, v[3].z))

\* The barycentric weights of p in the triangle a, b, c are the three
\* sub-areas over the area: wa = Orient(b, c, p) / Orient(a, b, c), and so
\* on.  They are the only numbers with wa + wb + wc = 1 and
\* wa*a + wb*b + wc*c = p.  The predicate says that z is within 1/2 of
\* wa*a.z + wb*b.z + wc*c.z.
NearestToWeightedSum(z, p, a, b, c) ==
    LET A == Orient(a, b, c)
        wa == Orient(b, c, p)
        wb == Orient(c, a, p)
        wc == Orient(a, b, p)
    IN  /\ wa + wb + wc = A
        /\ wa * a.x + wb * b.x + wc * c.x = A * p.x
        /\ wa * a.y + wb * b.y + wc * c.y = A * p.y
        /\ 2 * Abs(z * A - (wa * a.z + wb * b.z + wc * c.z)) <= Abs(A)

\* C12: a result in a triangle of nonzero area carries the integer nearest
\* to the barycentric combination of the three z values; at a vertex it is
\* that vertex's z, it lies between the least and the greatest z, and the
\* centroid (weights 1/3 each) of (0,0,0), (10,0,0), (0,10,30) yields 10.
C12_ElevationIsRoundedWeightedSum ==
    /\ (found # NoResult /\ found.triangleId >= 0) =>
          LET v == walkmesh.triangles[found.triangleId + 1].vertices IN
          NonDegenerate(v) =>
             /\ NearestToWeightedSum(found.z, query, v[1], v[2], v[3])
             /\ \A k \in 1..3 : (query.x = v[k].x /\ query.y = v[k].y) => found.z = v[k].z
             /\ MinZ(v) <= found.z /\ found.z <= MaxZ(v)
    /\ centroidFound # NoResult =>
          LET v == walkmesh.triangles[1].vertices IN
          /\ centroidFound.triangleId = 0
          /\ 2 * Abs(3 * centroidFound.z - (v[1].z + v[2].z + v[3].z)) <= 3
          /\ MinZ(v) <= centroidFound.z /\ centroidFound.z <= MaxZ(v)
          /\ walkmesh = Mesh(<<SlopeTriangle>>) => centroidFound.z = 10

\* A query strictly inside the first of two triangles, none of its three
\* weights zero, whose weighted sum is not an integer and was rounded to an
\* integer that is no vertex's z.
C12_Witness ==
    /\ found # NoResult
    /\ found.triangleId = 0
    /\ Len(walkmesh.triangles) = 2
    /\ LET v == walkmesh.triangles[1].vertices
           A == Orient(v[1], v[2], v[3])
           wa == Orient(v[2], v[3], query)
           wb == Orient(v[3], v[1], query)
           wc == Orient(v[1], v[2], query)
       IN  /\ A # 0 /\ wa # 0 /\ wb # 0 /\ wc # 0
           /\ (wa * v[1].z + wb * v[2].z + wc * v[3].z) % Abs(A) # 0
           /\ \A k \in 1..3 : found.z # v[k].z

-----------------------------------------------------------------------------
(* Degenerate triangles, checked under SpecQuery.                          *)

\* The query resolved to a triangle whose denominator is 0.
FoundDegenerate ==
    /\ found # NoResult
    /\ found.triangleId >= 0
    /\ ~NonDegenerate(walkmesh.triangles[found.triangleId + 1].vertices)

\* C13 as stated: the elevation produced for a point located in a
\* degenerate triangle is the mean (z0 + z1 + z2) / 3.
C13_DegenerateIsMean ==
    FoundDegenerate =>
        LET v == walkmesh.triangles[found.triangleId + 1].vertices
        IN  3 * found.z = v[1].z + v[2].z + v[3].z

\* C13, amended: for a degenerate triangle calculateZAtPoint yields the mean
\* (z0 + z1 + z2) / 3 without dividing by the zero denominator, and
\* findTriangleAtPosition returns the integer nearest to that mean.
C13_DegenerateIsRoundedMean ==
    FoundDegenerate =>
        LET tri == walkmesh.triangles[found.triangleId + 1]
            v == tri.vertices
            sum == v[1].z + v[2].z + v[3].z
            mean == calculateZAtPoint(query.x, query.y, tri)
        IN  /\ mean.den > 0
            /\ 3 * mean.num = sum * mean.den
            /\ found.z = MathRound(mean)
            /\ Abs(3 * found.z - sum) <= 1

\* A point located in a triangle with three collinear, pairwise distinct
\* vertices whose z values have a mean that is not an integer.
C13_Witness ==
    /\ FoundDegenerate
    /\ LET v == walkmesh.triangles[found.triangleId + 1].vertices
       IN  /\ <<v[1].x, v[1].y>> # <<v[2].x, v[2].y>>
           /\ <<v[2].x, v[2].y>> # <<v[3].x, v[3].y>>
           /\ <<v[1].x, v[1].y>> # <<v[3].x, v[3].y>>
           /\ (v[1].z + v[2].z + v[3].z) % 3 # 0

-----------------------------------------------------------------------------
(* Purity of findTriangleAtPosition, checked under SpecCallers.            *)

\* Two callers that asked for the same point hold the same answer.
SameQuerySameAnswer ==
    \A c \in Callers, d \in Callers :
        (calls[c] # NoResult /\ calls[d] # NoResult
         /\ calls[c].x = calls[d].x /\ calls[c].y = calls[d].y)
            => calls[c].result = calls[d].result

-----------------------------------------------------------------------------
(* Position updates and the map controls, checked under SpecViewer.        *)

\* What a message carries is what findTriangleAtPosition returns for the
\* current walkmesh at the point the message reports.
UpdateMatchesQuery(m) ==
    /\ m.x \in Int /\ m.y \in Int /\ m.z \in Int
    /\ m.triangleId \in (-1)..(Len(walkmesh.triangles) - 1)
    /\ [triangleId |-> m.triangleId, z |-> m.z] = findTriangleAtPosition(walkmesh, m.x, m.y)
    /\ m.triangleId = -1 => m.z = 0
    /\ m.modelIndex \in DOMAIN position

\* C15: every update emitted on a mouse-move or a mouse-up carries the index
\* of a model that was being dragged, the rounded position of that model's
\* group, and the triangle index (-1 or 0..triangles.length - 1) and integer
\* elevation that findTriangleAtPosition gives for the current walkmesh at
\* the reported point, the elevation being 0 when the index is -1.
C15_UpdateIsQueryAtReportedPoint ==
    /\ [](\A m \in emitted : UpdateMatchesQuery(m))
    /\ [][\A m \in emitted' :
             /\ m.modelIndex \in dragging
             /\ 2 * m.x - 1 <= position'[m.modelIndex].x2
             /\ position'[m.modelIndex].x2 < 2 * m.x + 1
             /\ 2 * m.y - 1 <= -position'[m.modelIndex].z2
             /\ -position'[m.modelIndex].z2 < 2 * m.y + 1]_vars

\* Two models dragged at once, both reported by one event: one at a point of
\* the first triangle with an interpolated elevation, rounded from a
\* position between two integers, the other outside every triangle.
C15_Witness ==
    \E m \in emitted, n \in emitted :
        /\ m.modelIndex # n.modelIndex
        /\ m.triangleId = 0
        /\ Len(walkmesh.triangles) = 2
        /\ \A k \in 1..3 : m.z # walkmesh.triangles[1].vertices[k].z
        /\ position[m.modelIndex].x2 % 2 = 1
        /\ n.triangleId = -1 /\ n.z = 0

\* C16: in every state in which no mounted model is being dragged the map
\* controls are enabled.
C16_ControlsEnabledUnlessDragging ==
    (dragging \cap Mounted(walkmesh, fieldModels, showModels) = {}) => controlsEnabled

-----------------------------------------------------------------------------
(* The field-walkmesh-data listener, checked under SpecFieldData.          *)

\* C17: handling an event changes the walkmesh and isLoading only when the
\* payload's walkmeshBuffer is non-empty, the gateways only when its
\* gatewaysBuffer is non-empty, fieldName and fieldId only when the
\* payload's are truthy, each to the value its own field gives; an event
\* for another field with an empty gateways buffer keeps the gateways, and
\* isLoading never goes from false to true.
C17_EventUpdatesOwnFieldsOnly ==
    [][LET data == delivered' IN
       /\ (walkmesh' # walkmesh \/ isLoading' # isLoading) => HasBytes(data, "walkmeshBuffer")
       /\ HasBytes(data, "walkmeshBuffer") =>
             (walkmesh' = parseWalkmesh(data.walkmeshBuffer) /\ isLoading' = FALSE)
       /\ gateways' # gateways => HasBytes(data, "gatewaysBuffer")
       /\ HasBytes(data, "gatewaysBuffer") => gateways' = parseGateways(data.gatewaysBuffer)
       /\ fieldName' # fieldName => (data # NoResult /\ data.fieldName = fieldName' /\ fieldName' # "")
       /\ appFieldId' # appFieldId => (data # NoResult /\ data.fieldId = appFieldId' /\ appFieldId' # 0)
       /\ (data # NoResult /\ data.fieldId # 0 /\ data.fieldId # appFieldId
           /\ Len(data.gatewaysBuffer) = 0) => gateways' = gateways
       /\ isLoading = FALSE => isLoading' = FALSE]_vars

\* The event just handled named field 2 and brought a walkmesh but no
\* gateway bytes; the viewer shows field 2 with twelve gateways.
C17_Witness ==
    /\ delivered # NoResult
    /\ delivered.fieldId = 2 /\ appFieldId = 2
    /\ HasBytes(delivered, "walkmeshBuffer")
    /\ Len(delivered.gatewaysBuffer) = 0
    /\ Len(gateways) = GatewaySlots
    /\ isLoading = FALSE

====
